---- MODULE Spec2Model ----
(***************************************************************************)
(* Model of the hybrid ranking core of the book recommender:               *)
(*   src/src/models/hybrid_recommender.py  (HybridRecommender)             *)
(*                                                                         *)
(* Representation choices                                                  *)
(*  - A Python str is a sequence of one-character tokens.  The token "^2"  *)
(*    stands for U+00B2 (SUPERSCRIPT TWO), a character for which           *)
(*    str.isdigit() is True and which int() does not accept.               *)
(*  - A Python int is unbounded; an identifier is the canonical sequence   *)
(*    of its decimal digits (no leading zero, 0 is <<0>>).                 *)
(*  - A Python float is [nan |-> BOOLEAN, v |-> Int].  Distances and       *)
(*    ratings are in tenths (0.1 is 1, 4.5 is 45), popularity_weight in    *)
(*    tenths, and a hybrid score is scaled by 500, so that                 *)
(*    (1 - d) + (r / 5.0) * w  is  500 - 50*d10 + r10*w10  exactly.        *)
(*    Rounding of binary floating point is not modelled.                   *)
(*  - A cell of the metadata table is [t |-> tag, ...]: "num" a number,    *)
(*    "nan" an empty cell (pandas NaN), "str" a string.                    *)
(***************************************************************************)
EXTENDS Integers, Sequences, FiniteSets, TLC

VARIABLES
    pc,               \* position of the current recommend call
    config,           \* self.config: top_k, popularity_weight
    books_metadata,   \* self.books_metadata: [cols, rows]
    call,             \* the arguments of the current call
    results,          \* the batch returned by similarity_search_with_score
    i,                \* number of candidates the for loop has consumed
    recommendations,  \* the local list recommendations
    output,           \* the value returned by recommend
    error,            \* the exception the call ended with, "none" if it returned
    fn_in,            \* input of the pure function under check
    fn_out,           \* result of the pure function under check
    reads,            \* number of pd.read_csv calls made for the engine
    searches,         \* similarity-search requests issued by the current call
    memo,             \* an earlier finished call: its inputs and its result
    other,            \* the frame of a second call running on the same engine
    app,              \* app.py: the module's recommender and the current request
    trainer           \* ModelTrainer.initiate_model_training: its indexing loop

vars == <<pc, config, books_metadata, call, results, i, recommendations,
          output, error, fn_in, fn_out, reads, searches, memo, other, app,
          trainer>>

(***************************************************************************)
(* Bounds                                                                  *)
(***************************************************************************)
MaxBatch == 3
MaxTopK == 3
MaxLen == 3
MaxWide == 5
MaxEngineBatch == 2
MaxConcBatch == 2
MaxDocs == 3
MaxBatchSize == 2
MaxRows == 3

(***************************************************************************)
(* Generic helpers                                                         *)
(***************************************************************************)
Min(a, b) == IF a <= b THEN a ELSE b

Reverse(s) == [k \in 1..Len(s) |-> s[Len(s) + 1 - k]]

SeqsUpTo(S, n) == UNION {[1..m -> S] : m \in 0..n}

(***************************************************************************)
(* Characters and strings                                                  *)
(***************************************************************************)
DecimalChars == {"0", "1", "2", "3", "4", "5", "6", "7", "8", "9"}

\* str.isdigit() is also True for digits that are not decimal characters
OtherDigitChars == {"^2"}

IsDigit(c) == c \in DecimalChars \cup OtherDigitChars

DigitVal(c) ==
    CASE c = "0" -> 0 [] c = "1" -> 1 [] c = "2" -> 2 [] c = "3" -> 3
      [] c = "4" -> 4 [] c = "5" -> 5 [] c = "6" -> 6 [] c = "7" -> 7
      [] c = "8" -> 8 [] c = "9" -> 9

LowerChar(c) ==
    CASE c = "F" -> "f" [] c = "N" -> "n" [] c = "S" -> "s"
      [] c = "U" -> "u" [] OTHER -> c

\* str.lower()
Lower(s) == [k \in 1..Len(s) |-> LowerChar(s[k])]

\* "".join(filter(str.isdigit, s))
RECURSIVE FilterDigits(_)
FilterDigits(s) ==
    IF s = <<>> THEN <<>>
    ELSE IF IsDigit(Head(s)) THEN <<Head(s)>> \o FilterDigits(Tail(s))
         ELSE FilterDigits(Tail(s))

RECURSIVE StripZeros(_)
StripZeros(d) ==
    IF d = <<>> THEN <<0>>
    ELSE IF Head(d) = 0 THEN StripZeros(Tail(d)) ELSE d

\* int(s) for a non-empty string of isdigit characters
ParseInt(s) ==
    IF \E k \in 1..Len(s) : s[k] \notin DecimalChars
    THEN [ok |-> FALSE, val |-> <<0>>]
    ELSE [ok |-> TRUE, val |-> StripZeros([k \in 1..Len(s) |-> DigitVal(s[k])])]

\* lines 83-85: isbn_clean = "".join(filter(str.isdigit, str(isbn_str)))
\*              isbn = int(isbn_clean) if isbn_clean else 0
\* ok = FALSE is the ValueError of int()
NormalizeIsbn(isbn_str) ==
    LET isbn_clean == FilterDigits(isbn_str)
    IN  IF isbn_clean # <<>> THEN ParseInt(isbn_clean)
        ELSE [ok |-> TRUE, val |-> <<0>>]

(***************************************************************************)
(* Values: optional strings, table cells, floats                           *)
(***************************************************************************)
NoneVal == [t |-> "none", s |-> <<>>, n |-> 0]

StrVal(x) == [t |-> "str", s |-> x, n |-> 0]

NumVal(x) == [t |-> "num", s |-> <<>>, n |-> x]

\* an empty CSV cell: pandas reads it as float NaN
NanVal == [t |-> "nan", s |-> <<>>, n |-> 0]

NaN == [nan |-> TRUE, v |-> 0]

Float(x) == [nan |-> FALSE, v |-> x]

\* `is not None` for the truth value
TruthyNotNone(x) == x.t = "str"

\* Python truthiness of an Optional[str]
Truthy(x) == x.t = "str" /\ x.s # <<>>

\* str(category) for a str or a NaN cell
StrOf(x) == IF x.t = "nan" THEN <<"n", "a", "n">> ELSE x.s

\* float(x): a number, NaN for an empty cell, ValueError (ok = FALSE) for a
\* string; the string cells of the tables are non-numeric
FloatOf(x) ==
    CASE x.t = "num" -> [ok |-> TRUE, val |-> Float(x.n)]
      [] x.t = "nan" -> [ok |-> TRUE, val |-> NaN]
      [] OTHER -> [ok |-> FALSE, val |-> NaN]

\* int(x): ValueError (ok = FALSE) for NaN and for a non-numeric string
IntOf(x) ==
    CASE x.t = "num" -> [ok |-> TRUE, val |-> x.n]
      [] OTHER -> [ok |-> FALSE, val |-> 0]

\* a < b on floats: every comparison with NaN is False
FloatLt(a, b) == ~a.nan /\ ~b.nan /\ a.v < b.v

(***************************************************************************)
(* sorted(recommendations, key=lambda x: x["score"], reverse=True)         *)
(* as CPython computes it for a list shorter than 64: the list is          *)
(* reversed, the leading run is found (count_run), the rest is inserted by *)
(* binary insertion (binarysort), and the list is reversed back.  Only     *)
(* key < key is ever evaluated.                                            *)
(***************************************************************************)
KeyLt(x, y) == FloatLt(x.score, y.score)

\* count_run: length of the run that starts the list, k elements so far
RECURSIVE RunLen(_, _, _)
RunLen(a, descending, k) ==
    IF k < Len(a) /\ (KeyLt(a[k + 1], a[k]) <=> descending)
    THEN RunLen(a, descending, k + 1)
    ELSE k

\* binarysort's search: the slot of pivot in the sorted prefix a[l..r-1]
RECURSIVE InsertPos(_, _, _, _)
InsertPos(a, pivot, l, r) ==
    IF l < r
    THEN LET p == l + ((r - l) \div 2)
         IN  IF KeyLt(pivot, a[p]) THEN InsertPos(a, pivot, l, p)
             ELSE InsertPos(a, pivot, p + 1, r)
    ELSE l

\* binarysort: a[1..start-1] is sorted, insert a[start..]
RECURSIVE BinarySort(_, _)
BinarySort(a, start) ==
    IF start > Len(a) THEN a
    ELSE LET pivot == a[start]
             l == InsertPos(a, pivot, 1, start)
             b == [k \in 1..Len(a) |->
                     IF k < l \/ k > start THEN a[k]
                     ELSE IF k = l THEN pivot ELSE a[k - 1]]
         IN  BinarySort(b, start + 1)

SortedByScoreDesc(list) ==
    IF Len(list) < 2 THEN list
    ELSE LET a == Reverse(list)
             descending == KeyLt(a[2], a[1])
             n == RunLen(a, descending, 2)
             b == IF descending
                  THEN [k \in 1..Len(a) |-> IF k <= n THEN a[n + 1 - k] ELSE a[k]]
                  ELSE a
         IN  Reverse(BinarySort(b, n + 1))

(***************************************************************************)
(* The metadata table (pd.read_csv(...).set_index("isbn13")) and the       *)
(* inputs of a call                                                        *)
(***************************************************************************)
Fiction == <<"F", "i", "c", "t", "i", "o", "n">>

NonFiction == <<"N", "o", "n", "-", "F", "i", "c", "t", "i", "o", "n">>

SciFi == <<"S", "c", "i", "-", "F", "i">>

Uncategorized ==
    <<"U", "n", "c", "a", "t", "e", "g", "o", "r", "i", "z", "e", "d">>

NotAvailable == <<"N", "/", "A">>

Row(isbn13, simple, cats, rating, count, tone) ==
    [isbn13 |-> isbn13, simple_category |-> simple, categories |-> cats,
     average_rating |-> rating, ratings_count |-> count, dominant_tone |-> tone]

AllCols == {"simple_category", "categories", "average_rating",
            "ratings_count", "dominant_tone"}

\* the books of the tests' fixture (test_recommender.py:39-52)
BookOne ==
    Row(<<1>>, StrVal(Fiction), StrVal(SciFi),
        NumVal(45), NumVal(100), StrVal(<<"j", "o", "y">>))

BookTwo ==
    Row(<<2>>, StrVal(NonFiction), StrVal(NonFiction),
        NumVal(30), NumVal(50), StrVal(<<"s", "a", "d">>))

\* the toned file: every column, every cell filled
TableToned == [cols |-> AllCols, rows |-> <<BookOne, BookTwo>>]

\* the cleaned file: no simple_category and no dominant_tone column
TableCleaned ==
    [cols |-> {"categories", "average_rating", "ratings_count"},
     rows |-> <<[BookOne EXCEPT !.simple_category = NoneVal,
                                !.dominant_tone = NoneVal],
                [BookTwo EXCEPT !.simple_category = NoneVal,
                                !.dominant_tone = NoneVal]>>]

\* a file whose second book has empty simple_category, average_rating and
\* dominant_tone cells
TableEmptyCells ==
    [cols |-> AllCols,
     rows |-> <<BookOne,
                Row(<<2>>, NanVal, StrVal(Fiction),
                    NanVal, NumVal(50), NanVal)>>]

\* a file whose second book has a non-numeric average_rating
TableBadRating ==
    [cols |-> AllCols,
     rows |-> <<BookOne,
                Row(<<2>>, StrVal(Fiction), StrVal(Fiction),
                    StrVal(NotAvailable), NumVal(10), StrVal(<<"j", "o", "y">>))>>]

Tables == {TableToned, TableCleaned, TableEmptyCells, TableBadRating}

\* a file with a row whose isbn13 is 0: read_csv and set_index (lines 47-48)
\* accept it as they accept any other
TableZeroKey ==
    [cols |-> AllCols,
     rows |-> <<BookOne,
                Row(<<0>>, StrVal(Fiction), StrVal(Fiction),
                    NumVal(50), NumVal(1), StrVal(<<"j", "o", "y">>))>>]

\* a file with two rows for isbn13 1: set_index keeps both, in file order
TableDuplicates ==
    [cols |-> AllCols,
     rows |-> <<BookOne,
                Row(<<1>>, StrVal(NonFiction), StrVal(NonFiction),
                    NumVal(20), NumVal(7), StrVal(<<"s", "a", "d">>)),
                BookTwo>>]

\* a file whose second book has an empty ratings_count cell
TableEmptyCount ==
    [cols |-> AllCols,
     rows |-> <<BookOne, [BookTwo EXCEPT !.ratings_count = NanVal]>>]

\* a file without the columns average_rating and ratings_count
TableNoRatings ==
    [cols |-> {"simple_category", "categories", "dominant_tone"},
     rows |-> <<[BookOne EXCEPT !.average_rating = NoneVal,
                                !.ratings_count = NoneVal],
                [BookTwo EXCEPT !.average_rating = NoneVal,
                                !.ratings_count = NoneVal]>>]

StoreTables == {TableZeroKey, TableDuplicates, TableEmptyCount, TableNoRatings}

\* popularity_weight values of the engine, in tenths (0.5 is the tests' value)
Weights == {5}

\* what doc.metadata.get("isbn", "0") can be for a candidate
IsbnStrings == {<<"1">>, <<"0", "-", "2">>, <<"X">>}

\* distances the index reports, in tenths
Distances == {1, 4}

Candidates == [isbn : IsbnStrings, score : Distances]

\* candidates at one distance, for batches of up to MaxWide
WideCandidates == [isbn : IsbnStrings, score : {1}]

CategoryFilters ==
    {NoneVal, StrVal(<<"f", "i", "c", "t", "i", "o", "n">>), StrVal(NonFiction)}

ToneFilters == {NoneVal, StrVal(<<"j", "o", "y">>)}

(***************************************************************************)
(* HybridRecommender.recommend, lines 54-135                               *)
(***************************************************************************)
NoCall == [category_filter |-> NoneVal, tone_passed |-> FALSE,
           tone_filter |-> NoneVal, fetch_k |-> 0]

\* the two multipliers of line 75 exchanged
FetchKSwapped(top_k, category_filter) ==
    IF Truthy(category_filter) THEN top_k * 3 ELSE top_k * 5

\* line 75: fetch_k = top_k * 5 if category_filter else top_k * 3
FetchK(top_k, category_filter) ==
    IF Truthy(category_filter) THEN top_k * 5 ELSE top_k * 3

\* line 88: isbn in self.books_metadata.index
InIndex(table, isbn) == \E k \in 1..Len(table.rows) : table.rows[k].isbn13 = isbn

\* .iloc[-1] for .iloc[0]: the last of several rows
BookRowLast(table, isbn) ==
    LET k == CHOOSE k \in 1..Len(table.rows) :
                 /\ table.rows[k].isbn13 = isbn
                 /\ \A j \in (k + 1)..Len(table.rows) : table.rows[j].isbn13 # isbn
    IN  table.rows[k]

\* lines 89-91: .loc[isbn], and .iloc[0] when several rows carry the label
BookRow(table, isbn) ==
    LET k == CHOOSE k \in 1..Len(table.rows) :
                 /\ table.rows[k].isbn13 = isbn
                 /\ \A j \in 1..(k - 1) : table.rows[j].isbn13 # isbn
    IN  table.rows[k]

\* Series.get(col, default)
Get(table, row, col, default) == IF col \in table.cols THEN row[col] ELSE default

\* lines 95-97: simple_category, else categories when get returned None
ResolveCategory(table, row) ==
    LET category == Get(table, row, "simple_category", NoneVal)
    IN  IF category.t = "none"
        THEN Get(table, row, "categories", StrVal(Uncategorized))
        ELSE category

\* the comparison of line 101 inverted (== for !=)
CategoryRejectedInverted(category_filter, category) ==
    /\ Truthy(category_filter)
    /\ Lower(category_filter.s) = Lower(StrOf(category))

\* lines 99-102: the condition of the continue
CategoryRejected(category_filter, category) ==
    /\ Truthy(category_filter)
    /\ Lower(category_filter.s) # Lower(StrOf(category))

\* the distance used as if it were a similarity (score for 1 - score)
HybridScoreRawDistance(score, rating, popularity_weight) ==
    IF rating.nan THEN NaN
    ELSE Float((50 * score) + rating.v * popularity_weight)

\* the popularity term subtracted instead of added
HybridScorePenalty(score, rating, popularity_weight) ==
    IF rating.nan THEN NaN
    ELSE Float((500 - 50 * score) - rating.v * popularity_weight)

\* lines 109-112: similarity_score = 1 - score
\*                hybrid_score = similarity_score + (rating / 5.0) * popularity_weight
HybridScore(score, rating, popularity_weight) ==
    IF rating.nan THEN NaN
    ELSE Float((500 - 50 * score) + rating.v * popularity_weight)

\* lines 115-125: the keys of the dictionary appended for a candidate
RecordKeys == {"isbn", "title", "authors", "description", "category",
               "rating", "ratings_count", "score", "match_reason"}

\* lines 81-129: the body of the for loop for the candidate at position pos.
\* kind is "error" (exception caught at line 127), "absent" (the if of line
\* 88 is false), "filtered" (the continue of line 103) or "append".
Process(table, cfg, category_filter, cand, pos) ==
    LET norm == NormalizeIsbn(cand.isbn)
        none == [kind |-> "none"]
    IN  IF ~norm.ok THEN [kind |-> "error", rec |-> none]
        ELSE IF ~InIndex(table, norm.val) THEN [kind |-> "absent", rec |-> none]
        ELSE
          LET book_row == BookRow(table, norm.val)
              category == ResolveCategory(table, book_row)
              rating == FloatOf(Get(table, book_row, "average_rating", NumVal(0)))
              ratings_count == IntOf(Get(table, book_row, "ratings_count", NumVal(0)))
          IN  IF CategoryRejected(category_filter, category)
              THEN [kind |-> "filtered", rec |-> none]
              ELSE IF ~rating.ok \/ ~ratings_count.ok
              THEN [kind |-> "error", rec |-> none]
              ELSE [kind |-> "append",
                    rec |-> [kind |-> "rec",
                             isbn |-> norm.val,
                             category |-> category,
                             rating |-> rating.val,
                             ratings_count |-> ratings_count.val,
                             score |-> HybridScore(cand.score, rating.val,
                                                   cfg.popularity_weight),
                             match_reason |-> "Hybrid Match",
                             keys |-> RecordKeys,
                             pos |-> pos]]

\* lines 78-129: the list recommendations after the first n candidates of
\* the batch
RECURSIVE LoopResult(_, _, _, _, _)
LoopResult(table, cfg, category_filter, batch, n) ==
    IF n = 0 THEN <<>>
    ELSE LET before == LoopResult(table, cfg, category_filter, batch, n - 1)
             step == Process(table, cfg, category_filter, batch[n], n)
         IN  IF step.kind = "append" THEN before \o <<step.rec>> ELSE before

\* recommendations[:top_k + 1]
TruncateOneMore(list, top_k) == SubSeq(list, 1, Min(top_k + 1, Len(list)))

\* recommendations[:top_k - 1]
TruncateOneLess(list, top_k) == SubSeq(list, 1, Min(top_k - 1, Len(list)))

\* line 135: recommendations[:top_k]
Truncate(list, top_k) == SubSeq(list, 1, Min(top_k, Len(list)))

\* lines 68-135 for a batch the index returned: the list recommend returns
RecommendOutput(table, cfg, category_filter, batch) ==
    Truncate(SortedByScoreDesc(
                 LoopResult(table, cfg, category_filter, batch, Len(batch))),
             cfg.top_k)

Idle == pc = "idle"

\* no earlier call is remembered
NoMemo == [set |-> FALSE, category_filter |-> NoneVal, results |-> <<>>,
           output |-> <<>>]

\* no request of the application is in progress
NoRequest == [query |-> <<>>, category |-> <<>>, tone |-> "", index_batch |-> <<>>]

NoResponse == [gallery |-> <<>>, data |-> <<>>, status |-> "none"]

\* the state of app.py in the runs that do not go through it
NoApp == [pc |-> "off", files |-> <<>>, embedding_ok |-> TRUE,
          data_path |-> "none", recommender |-> FALSE, request |-> NoRequest,
          response |-> NoResponse, calls |-> 0, caught |-> "none",
          raised |-> FALSE]

\* the trainer is not running
NoTrainer == [pc |-> "off", documents |-> 0, batch_size |-> 1, start |-> 0,
              attempt |-> 0, added |-> <<>>, attempts |-> 0, slept |-> 0,
              last |-> <<>>, error |-> <<>>]

\* no second call is running
NoFrame == [pc |-> "idle", category_filter |-> NoneVal, results |-> <<>>,
            i |-> 0, recommendations |-> <<>>, output |-> <<>>,
            during |-> FALSE]

\* a caller passes tone_filter=..., as app.search_books does (app.py:68-70):
\* recommend has no such parameter and the call raises TypeError
CallWithToneArgs(category_filter, tone_filter) ==
    /\ Idle
    /\ call' = [category_filter |-> category_filter, tone_passed |-> TRUE,
                tone_filter |-> tone_filter, fetch_k |-> 0]
    /\ pc' = "raised"
    /\ error' = "TypeError"
    /\ results' = <<>>
    /\ i' = 0
    /\ recommendations' = <<>>
    /\ output' = <<>>
    /\ searches' = 0
    /\ UNCHANGED <<config, books_metadata, reads, memo, other, trainer,
                   fn_in, fn_out>>

CallWithTone ==
    /\ \E cf \in CategoryFilters, tf \in ToneFilters : CallWithToneArgs(cf, tf)
    /\ UNCHANGED app

\* line 76 wrapped in a try that logs the exception and returns []
SearchFailsSwallowed ==
    /\ Idle
    /\ \E cf \in CategoryFilters :
         call' = [category_filter |-> cf, tone_passed |-> FALSE,
                  tone_filter |-> NoneVal, fetch_k |-> FetchK(config.top_k, cf)]
    /\ pc' = "done"
    /\ error' = "SearchError"
    /\ searches' = 1
    /\ results' = <<>>
    /\ i' = 0
    /\ recommendations' = <<>>
    /\ output' = <<>>
    /\ UNCHANGED <<config, books_metadata, reads, memo, other, app, trainer, fn_in, fn_out>>

\* line 76 raises (the index is unavailable): the call is outside the try of
\* line 81 and nothing in recommend catches the exception
SearchFails ==
    /\ Idle
    /\ \E cf \in CategoryFilters :
         call' = [category_filter |-> cf, tone_passed |-> FALSE,
                  tone_filter |-> NoneVal, fetch_k |-> FetchK(config.top_k, cf)]
    /\ pc' = "raised"
    /\ error' = "SearchError"
    /\ searches' = 1
    /\ results' = <<>>
    /\ i' = 0
    /\ recommendations' = <<>>
    /\ output' = <<>>
    /\ UNCHANGED <<config, books_metadata, reads, memo, other, app, trainer, fn_in, fn_out>>

\* recommend reading the file again before it searches
RetrieveFromRereads(candidates, max_batch) ==
    /\ Idle
    /\ \E cf \in CategoryFilters :
         LET fetch_k == FetchK(config.top_k, cf)
         IN  /\ call' = [category_filter |-> cf, tone_passed |-> FALSE,
                         tone_filter |-> NoneVal, fetch_k |-> fetch_k]
             /\ results' \in SeqsUpTo(candidates, Min(max_batch, fetch_k))
    /\ reads' = reads + 1
    /\ pc' = "loop"
    /\ error' = "none"
    /\ i' = 0
    /\ recommendations' = <<>>
    /\ output' = <<>>
    /\ searches' = 1
    /\ UNCHANGED <<config, books_metadata, memo, other, app, trainer, fn_in,
                   fn_out>>

\* lines 68-78: recommend(query, category_filter) up to the for loop; the
\* index returns at most fetch_k candidates
RetrieveWith(filters, candidates, max_batch) ==
    /\ Idle
    /\ \E cf \in filters :
         LET fetch_k == FetchK(config.top_k, cf)
         IN  /\ call' = [category_filter |-> cf, tone_passed |-> FALSE,
                         tone_filter |-> NoneVal, fetch_k |-> fetch_k]
             /\ results' \in SeqsUpTo(candidates, Min(max_batch, fetch_k))
    /\ pc' = "loop"
    /\ error' = "none"
    /\ i' = 0
    /\ recommendations' = <<>>
    /\ output' = <<>>
    /\ searches' = 1
    /\ UNCHANGED <<config, books_metadata, reads, memo, other, app, trainer, fn_in, fn_out>>

RetrieveFrom(candidates, max_batch) ==
    RetrieveWith(CategoryFilters, candidates, max_batch)

Retrieve == RetrieveFrom(Candidates, MaxBatch)

\* callers that pass category_filter="" as well
BlankFilters == {NoneVal, StrVal(<<>>), StrVal(NonFiction)}

RetrieveBlank == RetrieveWith(BlankFilters, Candidates, MaxBatch)

RetrieveWide == RetrieveFrom(WideCandidates, MaxWide)

RetrieveShort == RetrieveFrom(WideCandidates, MaxEngineBatch)

Step == Process(books_metadata, config, call.category_filter, results[i + 1], i + 1)

InLoop == pc = "loop" /\ i < Len(results)

LoopFrame == UNCHANGED <<pc, config, books_metadata, call, results, output,
                         error, fn_in, fn_out, reads, searches, memo, other, app, trainer>>

\* the lookup without the membership test of line 88 and outside the try:
\* the KeyError of .loc ends the call
DropNoMetadataRaises ==
    /\ InLoop
    /\ Step.kind = "absent"
    /\ i' = i + 1
    /\ pc' = "raised"
    /\ error' = "KeyError"
    /\ UNCHANGED <<config, books_metadata, reads, memo, other, app, trainer, call, results,
                   recommendations, output, searches, fn_in, fn_out>>

\* the loop body without the try of line 81: the exception ends the call
SkipOnErrorAborts ==
    /\ InLoop
    /\ Step.kind = "error"
    /\ i' = i + 1
    /\ pc' = "raised"
    /\ error' = "ValueError"
    /\ UNCHANGED <<config, books_metadata, reads, memo, other, app, trainer, call, results,
                   recommendations, output, searches, fn_in, fn_out>>

\* the except clause deleting the row it failed on from the store
SkipOnErrorDropsRow ==
    /\ InLoop
    /\ Step.kind = "error"
    /\ i' = i + 1
    /\ books_metadata' =
         [books_metadata EXCEPT !.rows =
            SelectSeq(@, LAMBDA row : row.isbn13 # NormalizeIsbn(results[i + 1].isbn).val)]
    /\ UNCHANGED <<pc, config, call, results, recommendations, output, error,
                   fn_in, fn_out, reads, searches, memo, other, app, trainer>>

\* line 88 false: no metadata for the candidate
DropNoMetadata ==
    /\ InLoop
    /\ Step.kind = "absent"
    /\ i' = i + 1
    /\ UNCHANGED recommendations
    /\ LoopFrame

\* line 103: continue
DropByCategory ==
    /\ InLoop
    /\ Step.kind = "filtered"
    /\ i' = i + 1
    /\ UNCHANGED recommendations
    /\ LoopFrame

\* lines 127-129: except Exception: continue
SkipOnError ==
    /\ InLoop
    /\ Step.kind = "error"
    /\ i' = i + 1
    /\ UNCHANGED recommendations
    /\ LoopFrame

\* line 114: recommendations.append(...)
AppendRecord ==
    /\ InLoop
    /\ Step.kind = "append"
    /\ i' = i + 1
    /\ recommendations' = recommendations \o <<Step.rec>>
    /\ LoopFrame

\* an unstable sort: records of equal score in either order
RankUnstable ==
    /\ pc = "loop"
    /\ i = Len(results)
    /\ recommendations' \in {SortedByScoreDesc(recommendations),
                              SortedByScoreDesc(Reverse(recommendations))}
    /\ pc' = "ranked"
    /\ UNCHANGED <<config, books_metadata, reads, memo, other, app, trainer, call, results, i,
                   output, error, searches, fn_in, fn_out>>

\* lines 132-134
Rank ==
    /\ pc = "loop"
    /\ i = Len(results)
    /\ recommendations' = SortedByScoreDesc(recommendations)
    /\ pc' = "ranked"
    /\ UNCHANGED <<config, books_metadata, reads, memo, other, app, trainer, call, results, i,
                   output, error, searches, fn_in, fn_out>>

\* line 135
Return ==
    /\ pc = "ranked"
    /\ output' = Truncate(recommendations, config.top_k)
    /\ pc' = "done"
    /\ UNCHANGED <<config, books_metadata, reads, memo, other, app, trainer, call, results, i,
                   recommendations, error, searches, fn_in, fn_out>>

\* the caller has the result (or the exception); the locals of the call are
\* gone and the engine is ready for the next call
FinishCall ==
    /\ pc \in {"done", "raised"}
    /\ pc' = "idle"
    /\ call' = NoCall
    /\ results' = <<>>
    /\ i' = 0
    /\ recommendations' = <<>>
    /\ output' = <<>>
    /\ error' = "none"
    /\ searches' = 0
    /\ UNCHANGED <<config, books_metadata, reads, other, trainer, fn_in, fn_out>>

Finish == FinishCall /\ UNCHANGED <<memo, app>>

\* the caller keeps the inputs and the result of a call that returned
Remember ==
    /\ pc = "done"
    /\ ~memo.set
    /\ memo' = [set |-> TRUE, category_filter |-> call.category_filter,
                results |-> results, output |-> output]
    /\ FinishCall
    /\ UNCHANGED app

\* the engine after __init__ (lines 33-48) on one of the files tables with
\* one of the values top_ks, no call made yet
EngineBuilt(tables, top_ks) ==
    /\ pc = "idle"
    /\ config \in [top_k : top_ks, popularity_weight : Weights]
    /\ books_metadata \in tables
    /\ call = NoCall
    /\ results = <<>>
    /\ i = 0
    /\ recommendations = <<>>
    /\ output = <<>>
    /\ error = "none"
    /\ fn_in = <<>>
    /\ fn_out = <<>>
    /\ reads = 1
    /\ searches = 0
    /\ memo = NoMemo
    /\ other = NoFrame
    /\ app = NoApp
    /\ trainer = NoTrainer

EngineBuiltFrom(tables) == EngineBuilt(tables, 1..MaxTopK)

Init == EngineBuiltFrom(Tables)

Next ==
    \/ CallWithTone
    \/ SearchFails
    \/ Retrieve
    \/ DropNoMetadata
    \/ DropByCategory
    \/ SkipOnError
    \/ AppendRecord
    \/ Rank
    \/ Return
    \/ Finish

Spec == Init /\ [][Next]_vars

\* the same engine and calls, with longer batches of candidates at one
\* distance
NextCount ==
    \/ CallWithTone
    \/ SearchFails
    \/ RetrieveWide
    \/ DropNoMetadata
    \/ DropByCategory
    \/ SkipOnError
    \/ AppendRecord
    \/ Rank
    \/ Return
    \/ Finish

SpecCount == Init /\ [][NextCount]_vars

\* the same engine, called with None, "" or a category as category_filter
NextBlank ==
    \/ RetrieveBlank
    \/ DropNoMetadata
    \/ DropByCategory
    \/ SkipOnError
    \/ AppendRecord
    \/ Rank
    \/ Return
    \/ Finish

SpecBlank == Init /\ [][NextBlank]_vars

\* the same calls on an engine built from a file with a zero key or with
\* duplicate keys
InitStore == EngineBuiltFrom(StoreTables)

SpecStore == InitStore /\ [][Next]_vars

(***************************************************************************)
(* The life of one engine: construction, then calls one after another      *)
(***************************************************************************)
NoTable == [cols |-> {}, rows |-> <<>>]

EngineTables == {TableToned, TableBadRating}

\* HybridRecommender(config) has been called and __init__ has not yet read
\* the file
InitNew ==
    /\ pc = "new"
    /\ config \in [top_k : 1..MaxEngineBatch, popularity_weight : Weights]
    /\ books_metadata = NoTable
    /\ call = NoCall
    /\ results = <<>>
    /\ i = 0
    /\ recommendations = <<>>
    /\ output = <<>>
    /\ error = "none"
    /\ fn_in = <<>>
    /\ fn_out = <<>>
    /\ reads = 0
    /\ searches = 0
    /\ memo = NoMemo
    /\ other = NoFrame
    /\ app = NoApp
    /\ trainer = NoTrainer

\* lines 47-48: pd.read_csv(self.config.data_path), set_index("isbn13")
Construct ==
    /\ pc = "new"
    /\ books_metadata' \in EngineTables
    /\ reads' = reads + 1
    /\ pc' = "idle"
    /\ UNCHANGED <<config, call, results, i, recommendations, output, error,
                   fn_in, fn_out, searches, memo, other, app, trainer>>

NextEngine ==
    \/ Construct
    \/ CallWithTone
    \/ SearchFails
    \/ RetrieveShort
    \/ DropNoMetadata
    \/ DropByCategory
    \/ SkipOnError
    \/ AppendRecord
    \/ Rank
    \/ Return
    \/ Finish
    \/ Remember

SpecEngine == InitNew /\ [][NextEngine]_vars

(***************************************************************************)
(* Two calls of recommend running at once on one engine (the host serves   *)
(* requests in threads).  The first call is the call of the variables pc,  *)
(* call, results, i, recommendations, output; the second has its locals in *)
(* the frame other.  Both read config and books_metadata.                  *)
(***************************************************************************)
ConcCandidates == [isbn : {<<"1">>, <<"0", "-", "2">>}, score : {1}]

RetrieveConc == RetrieveFrom(ConcCandidates, MaxConcBatch)

\* lines 80-135 for a call whose locals are the frame f: the frame after
\* its next step
FrameNext(table, cfg, f) ==
    IF f.pc = "loop" /\ f.i < Len(f.results)
    THEN LET step == Process(table, cfg, f.category_filter,
                             f.results[f.i + 1], f.i + 1)
         IN  [f EXCEPT !.i = @ + 1,
                       !.recommendations =
                          IF step.kind = "append" THEN @ \o <<step.rec>> ELSE @]
    ELSE IF f.pc = "loop"
    THEN [f EXCEPT !.recommendations = SortedByScoreDesc(@), !.pc = "ranked"]
    ELSE [f EXCEPT !.output = Truncate(f.recommendations, cfg.top_k),
                   !.pc = "done"]

\* lines 68-78 in the second call; during records that the first call was
\* inside its loop at that moment
OtherCall ==
    /\ other.pc = "idle"
    /\ pc # "new"
    /\ \E cf \in CategoryFilters :
       \E batch \in SeqsUpTo(ConcCandidates,
                              Min(MaxConcBatch, FetchK(config.top_k, cf))) :
         other' = [pc |-> "loop", category_filter |-> cf, results |-> batch,
                   i |-> 0, recommendations |-> <<>>, output |-> <<>>,
                   during |-> (pc = "loop" /\ i > 0)]
    /\ UNCHANGED <<pc, config, books_metadata, call, results, i,
                   recommendations, output, error, fn_in, fn_out, reads,
                   searches, memo, app, trainer>>

\* recommendations kept in one list that both calls append to
OtherStepShared ==
    /\ other.pc \in {"loop", "ranked"}
    /\ other' = FrameNext(books_metadata, config, other)
    /\ recommendations' =
         IF Len(other'.recommendations) > Len(other.recommendations)
         THEN recommendations \o
                <<other'.recommendations[Len(other'.recommendations)]>>
         ELSE recommendations
    /\ UNCHANGED <<pc, config, books_metadata, call, results, i, output,
                   error, fn_in, fn_out, reads, searches, memo, app, trainer>>

\* lines 80-135 in the second call: one candidate, the sort or the return
OtherStep ==
    /\ other.pc \in {"loop", "ranked"}
    /\ other' = FrameNext(books_metadata, config, other)
    /\ UNCHANGED <<pc, config, books_metadata, call, results, i,
                   recommendations, output, error, fn_in, fn_out, reads,
                   searches, memo, app, trainer>>

\* the caller of the second call has its result
OtherFinish ==
    /\ other.pc = "done"
    /\ other' = NoFrame
    /\ UNCHANGED <<pc, config, books_metadata, call, results, i,
                   recommendations, output, error, fn_in, fn_out, reads,
                   searches, memo, app, trainer>>

InitConc == EngineBuilt(EngineTables, 1..MaxConcBatch)

NextConc ==
    \/ RetrieveConc
    \/ DropByCategory
    \/ SkipOnError
    \/ AppendRecord
    \/ Rank
    \/ Return
    \/ Finish
    \/ OtherCall
    \/ OtherStep
    \/ OtherFinish

SpecConc == InitConc /\ [][NextConc]_vars

(***************************************************************************)
(* app.py: the module builds its recommender once (lines 9-15, through     *)
(* ConfigurationManager.get_inference_config, configuration.py:200-228)    *)
(* and search_books (lines 53-104) serves the requests.                    *)
(***************************************************************************)
Files == {"toned", "enriched", "cleaned"}

\* the enriched file: simple_category, no dominant_tone column
TableEnriched ==
    [cols |-> {"simple_category", "categories", "average_rating",
               "ratings_count"},
     rows |-> <<[BookOne EXCEPT !.dominant_tone = NoneVal],
                [BookTwo EXCEPT !.dominant_tone = NoneVal]>>]

TableOf(path) ==
    CASE path = "toned" -> TableToned
      [] path = "enriched" -> TableEnriched
      [] OTHER -> TableCleaned

\* the fallback of lines 211-212 skipped: toned, else cleaned
ChoosePathSkipsEnriched(exists) ==
    IF exists["toned"] THEN "toned" ELSE "cleaned"

\* configuration.py:207-216: data_path after the two `if not
\* data_path.exists()` fallbacks
ChoosePath(exists) ==
    LET first == "toned"
        second == IF ~exists[first] THEN "enriched" ELSE first
    IN  IF ~exists[second] THEN "cleaned" ELSE second

Whitespace == {" ", "\t"}

\* str.strip()
RECURSIVE StripLeft(_)
StripLeft(str) ==
    IF str # <<>> /\ Head(str) \in Whitespace THEN StripLeft(Tail(str)) ELSE str

Strip(str) == Reverse(StripLeft(Reverse(StripLeft(str))))

All == <<"A", "l", "l">>

\* app.py:19-27, TONE_MAP.get(tone): None for a label that is not a key
ToneMapGet(tone) ==
    CASE tone = "Happy" -> StrVal(<<"j", "o", "y">>)
      [] tone = "Sad" -> StrVal(<<"s", "a", "d", "n", "e", "s", "s">>)
      [] OTHER -> NoneVal

\* line 61
CatFilter(category) == IF category = All THEN NoneVal ELSE StrVal(category)

\* line 62
ToneFilter(tone) == IF tone # "All" THEN ToneMapGet(tone) ELSE NoneVal

\* `not query` for `not query.strip()`
RefusedNoStrip(query, cat_filter, tone_filter) ==
    query = <<>> /\ ~Truthy(cat_filter) /\ ~Truthy(tone_filter)

\* line 64: not query.strip() and not cat_filter and not tone_filter
Refused(query, cat_filter, tone_filter) ==
    Strip(query) = <<>> /\ ~Truthy(cat_filter) /\ ~Truthy(tone_filter)

\* lines 55-59
NotReadyResponse ==
    [gallery |-> <<"Error: Recommender not initialized">>, data |-> <<>>,
     status |-> "Recommender engine is not ready."]

\* lines 65 and 73: [[], [], ""]
EmptyResponse == [gallery |-> <<>>, data |-> <<>>, status |-> ""]

\* line 79
NoMatchesResponse ==
    [gallery |-> <<>>, data |-> <<>>,
     status |-> "No books found matches your search."]

\* lines 81-104: one gallery item and one data entry per record
FoundResponse(list) ==
    [gallery |-> [k \in 1..Len(list) |-> "caption"],
     data |-> [k \in 1..Len(list) |-> list[k].isbn],
     status |-> "Found books."]

Queries == {<<>>, <<" ">>, <<" ", "s", "\t">>}

Categories == {All, Fiction}

Tones == {"All", "Happy", "Calm"}

\* what the index would return for the request's query
IndexBatches == {<<>>, <<[isbn |-> <<"X">>, score |-> 1]>>,
                 <<[isbn |-> <<"1">>, score |-> 1]>>}

Requests == [query : Queries, category : Categories, tone : Tones,
             index_batch : IndexBatches]

\* the process starts: which files exist, whether the embedding provider
\* and the index can be initialized, the values of params.yaml
InitApp ==
    /\ pc = "idle"
    /\ config \in [top_k : 1..MaxTopK, popularity_weight : Weights]
    /\ books_metadata = NoTable
    /\ call = NoCall
    /\ results = <<>>
    /\ i = 0
    /\ recommendations = <<>>
    /\ output = <<>>
    /\ error = "none"
    /\ fn_in = <<>>
    /\ fn_out = <<>>
    /\ reads = 0
    /\ searches = 0
    /\ memo = NoMemo
    /\ other = NoFrame
    /\ trainer = NoTrainer
    /\ \E files \in [Files -> BOOLEAN], ok \in BOOLEAN :
         app = [NoApp EXCEPT !.pc = "boot", !.files = files,
                             !.embedding_ok = ok]

AppFrame == UNCHANGED <<pc, config, call, results, i, recommendations, output,
                        error, fn_in, fn_out, searches, memo, other, trainer>>

\* app.py:11-12, get_inference_config (configuration.py:200-228)
GetInferenceConfig ==
    /\ app.pc = "boot"
    /\ app' = [app EXCEPT !.pc = "configured",
                          !.data_path = ChoosePath(app.files)]
    /\ UNCHANGED <<books_metadata, reads>>
    /\ AppFrame

\* app.py:12, HybridRecommender.__init__ runs to its end
ConstructOk ==
    /\ app.pc = "configured"
    /\ app.embedding_ok
    /\ app.files[app.data_path]
    /\ books_metadata' = TableOf(app.data_path)
    /\ reads' = reads + 1
    /\ app' = [app EXCEPT !.pc = "serving", !.recommender = TRUE]
    /\ AppFrame

\* app.py:13-15: __init__ raises (lines 35-43 of the engine, or read_csv
\* of a file that does not exist) and recommender = None
ConstructFails ==
    /\ app.pc = "configured"
    /\ ~app.embedding_ok \/ ~app.files[app.data_path]
    /\ app' = [app EXCEPT !.pc = "serving", !.recommender = FALSE]
    /\ UNCHANGED <<books_metadata, reads>>
    /\ AppFrame

Serving == app.pc = "serving" /\ pc = "idle"

Answer(request, response) ==
    [app EXCEPT !.request = request, !.response = response, !.calls = 0,
                !.caught = "none"]

\* lines 54-59 answering with the response of lines 65 and 73
SearchNotReadyEmpty ==
    /\ Serving
    /\ ~app.recommender
    /\ \E request \in Requests : app' = Answer(request, EmptyResponse)
    /\ UNCHANGED <<books_metadata, reads>>
    /\ AppFrame

\* lines 54-59: if not recommender
SearchNotReady ==
    /\ Serving
    /\ ~app.recommender
    /\ \E request \in Requests : app' = Answer(request, NotReadyResponse)
    /\ UNCHANGED <<books_metadata, reads>>
    /\ AppFrame

\* lines 61-65: the request is refused
SearchRefused ==
    /\ Serving
    /\ app.recommender
    /\ \E request \in Requests :
         /\ Refused(request.query, CatFilter(request.category),
                    ToneFilter(request.tone))
         /\ app' = Answer(request, EmptyResponse)
    /\ UNCHANGED <<books_metadata, reads>>
    /\ AppFrame

\* lines 61-70: recommender.recommend(query=..., category_filter=...,
\* tone_filter=...)
SearchCall ==
    /\ Serving
    /\ app.recommender
    /\ \E request \in Requests :
         /\ ~Refused(request.query, CatFilter(request.category),
                     ToneFilter(request.tone))
         /\ CallWithToneArgs(CatFilter(request.category),
                             ToneFilter(request.tone))
         /\ app' = [app EXCEPT !.pc = "pending", !.request = request,
                               !.response = NoResponse, !.calls = 1,
                               !.caught = "none"]

\* search_books without the try of lines 67-73: the exception leaves it
SearchReturnPropagates ==
    /\ app.pc = "pending"
    /\ pc \in {"done", "raised"}
    /\ app' = [app EXCEPT !.pc = "serving",
                          !.raised = (pc = "raised"),
                          !.caught = "none",
                          !.response =
                             IF pc = "raised" THEN NoResponse
                             ELSE IF output = <<>> THEN NoMatchesResponse
                             ELSE FoundResponse(output)]
    /\ FinishCall
    /\ UNCHANGED memo

\* lines 71-104: the except of line 71, or the presentation of the list
SearchReturn ==
    /\ app.pc = "pending"
    /\ pc \in {"done", "raised"}
    /\ app' = [app EXCEPT !.pc = "serving",
                          !.caught = IF pc = "raised" THEN error ELSE "none",
                          !.response =
                             IF pc = "raised" THEN EmptyResponse
                             ELSE IF output = <<>> THEN NoMatchesResponse
                             ELSE FoundResponse(output)]
    /\ FinishCall
    /\ UNCHANGED memo

NextApp ==
    \/ GetInferenceConfig
    \/ ConstructOk
    \/ ConstructFails
    \/ SearchNotReady
    \/ SearchRefused
    \/ SearchCall
    \/ SearchReturn

SpecApp == InitApp /\ [][NextApp]_vars

(***************************************************************************)
(* ModelTrainer.initiate_model_training, model_trainer.py:139-170: the     *)
(* documents are added to the index batch by batch, with retries.          *)
(* trainer.start is i of line 139, trainer.attempt is attempt of line 146, *)
(* trainer.added lists the offsets of the batches add_documents accepted,  *)
(* trainer.attempts counts the add_documents calls for the current batch.  *)
(***************************************************************************)
\* line 145
max_retries == 5

\* sub in text
Contains(text, sub) ==
    \E k \in 0..(Len(text) - Len(sub)) :
      \A j \in 1..Len(sub) : text[k + j] = sub[j]

Msg429 == <<"4", "2", "9", " ", "q", "u", "o", "t", "a">>

MsgExhausted == <<"R", "E", "S", "O", "U", "R", "C", "E", "_",
                  "E", "X", "H", "A", "U", "S", "T", "E", "D">>

MsgPort == <<"p", "o", "r", "t", " ", "1", "4", "2", "9", "0">>

MsgTimeout == <<"t", "i", "m", "e", "o", "u", "t">>

\* str(e) of the exceptions add_documents raises
ErrorMessages == {Msg429, MsgExhausted, MsgPort, MsgTimeout}

\* line 153: "429" in error_msg or "RESOURCE_EXHAUSTED" in error_msg
IsRateLimit(error_msg) ==
    Contains(error_msg, <<"4", "2", "9">>) \/ Contains(error_msg, MsgExhausted)

InitTrain ==
    /\ pc = "off"
    /\ config = [top_k |-> 1, popularity_weight |-> 5]
    /\ books_metadata = NoTable
    /\ call = NoCall
    /\ results = <<>>
    /\ i = 0
    /\ recommendations = <<>>
    /\ output = <<>>
    /\ error = "none"
    /\ fn_in = <<>>
    /\ fn_out = <<>>
    /\ reads = 0
    /\ searches = 0
    /\ memo = NoMemo
    /\ other = NoFrame
    /\ app = NoApp
    /\ \E n \in 0..MaxDocs, size \in 1..MaxBatchSize :
         trainer = [NoTrainer EXCEPT !.pc = "indexing", !.documents = n,
                                     !.batch_size = size]

TrainFrame == UNCHANGED <<pc, config, books_metadata, call, results, i,
                          recommendations, output, error, fn_in, fn_out,
                          reads, searches, memo, other, app>>

\* a batch is left to add and the for of line 146 has an attempt left
Adding ==
    /\ trainer.pc = "indexing"
    /\ trainer.start < trainer.documents
    /\ trainer.attempt < max_retries

\* lines 148-149: add_documents returns, break, next batch
AddDocuments ==
    /\ Adding
    /\ trainer' = [trainer EXCEPT !.added = Append(@, trainer.start),
                                  !.start = @ + trainer.batch_size,
                                  !.attempt = 0,
                                  !.attempts = 0,
                                  !.last = <<>>]
    /\ TrainFrame

\* lines 150-161: a rate-limit error before the last attempt: wait, retry
RetryAfterRateLimit ==
    /\ Adding
    /\ \E error_msg \in ErrorMessages :
         /\ IsRateLimit(error_msg)
         /\ trainer.attempt < max_retries - 1
         /\ trainer' = [trainer EXCEPT !.attempts = @ + 1,
                                       !.slept = (trainer.attempt + 1) * 15,
                                       !.attempt = @ + 1,
                                       !.last = error_msg]
    /\ TrainFrame

\* the else of line 162 logging the error and going on to the next batch
RaiseErrorContinues ==
    /\ Adding
    /\ \E error_msg \in ErrorMessages :
         /\ ~(IsRateLimit(error_msg) /\ trainer.attempt < max_retries - 1)
         /\ trainer' = [trainer EXCEPT !.attempts = 0,
                                       !.start = @ + trainer.batch_size,
                                       !.attempt = 0,
                                       !.last = <<>>]
    /\ TrainFrame

\* lines 162-166 and 176-177: any other error, or a rate-limit error on the
\* last attempt, is raised and ends initiate_model_training
RaiseError ==
    /\ Adding
    /\ \E error_msg \in ErrorMessages :
         /\ ~(IsRateLimit(error_msg) /\ trainer.attempt < max_retries - 1)
         /\ trainer' = [trainer EXCEPT !.attempts = @ + 1,
                                       !.pc = "raised",
                                       !.error = error_msg]
    /\ TrainFrame

\* line 139: range(0, len(documents), batch_size) is exhausted
EndIndexing ==
    /\ trainer.pc = "indexing"
    /\ trainer.start >= trainer.documents
    /\ trainer' = [trainer EXCEPT !.pc = "done"]
    /\ TrainFrame

NextTrain ==
    \/ AddDocuments
    \/ RetryAfterRateLimit
    \/ RaiseError
    \/ EndIndexing

SpecTrain == InitTrain /\ [][NextTrain]_vars

(***************************************************************************)
(* Vocabulary of the properties                                            *)
(***************************************************************************)
Returned == pc = "done"

Positions == 1..Len(results)

StoreKeys == {books_metadata.rows[k].isbn13 : k \in 1..Len(books_metadata.rows)}

NormId(pos) == NormalizeIsbn(results[pos].isbn)

\* the candidate's normalized identifier is a key of the Metadata Store
HasMetadata(pos) == NormId(pos).ok /\ NormId(pos).val \in StoreKeys

\* the candidate's normalized identifier is not a key of the Metadata Store
NoMetadata(pos) == NormId(pos).ok /\ NormId(pos).val \notin StoreKeys

StoredRow(isbn) == BookRow(books_metadata, isbn)

\* the candidate has metadata and its resolved category passes the filter
PassesFilter(pos) ==
    /\ HasMetadata(pos)
    /\ \/ ~Truthy(call.category_filter)
       \/ Lower(call.category_filter.s) =
            Lower(StrOf(ResolveCategory(books_metadata, StoredRow(NormId(pos).val))))

\* float(average_rating) and int(ratings_count) succeed for the candidate's row
Convertible(pos) ==
    LET row == StoredRow(NormId(pos).val)
    IN  /\ FloatOf(Get(books_metadata, row, "average_rating", NumVal(0))).ok
        /\ IntOf(Get(books_metadata, row, "ratings_count", NumVal(0))).ok

PosIn(list) == {list[k].pos : k \in 1..Len(list)}

\* the records left out of the result by the truncation alone
CutByRank == {k \in 1..Len(recommendations) : recommendations[k].pos \notin PosIn(output)}

(***************************************************************************)
(* C1  The list recommend returns is never longer than top_k, whatever    *)
(* the batch and the category filter.                                      *)
(***************************************************************************)
C1_LengthAtMostTopK == Returned => Len(output) <= config.top_k

\* more candidates survived than top_k and the result was cut to top_k
C1_Witness ==
    /\ Returned
    /\ Len(recommendations) > config.top_k
    /\ Len(output) = config.top_k

(***************************************************************************)
(* C2  The returned list is in descending order of hybrid score and       *)
(* records of equal score keep the order of their candidates in the batch. *)
(***************************************************************************)
C2_DescendingAndStable ==
    Returned =>
      \A a, b \in 1..Len(output) :
        a < b =>
          /\ ~FloatLt(output[a].score, output[b].score)
          /\ (~output[a].score.nan /\ output[a].score = output[b].score)
               => output[a].pos < output[b].pos

(***************************************************************************)
(* C3  No returned record has a lower hybrid score than a candidate that  *)
(* survived join and filter and was left out by the truncation alone.      *)
(***************************************************************************)
C3_NoBetterRecordCut ==
    Returned =>
      \A a \in 1..Len(output), k \in CutByRank :
        ~FloatLt(output[a].score, recommendations[k].score)

(***************************************************************************)
(* C4  With a non-empty category filter every returned record's category  *)
(* is a string equal to the filter up to case.                             *)
(***************************************************************************)
C4_FilterExact ==
    (Returned /\ Truthy(call.category_filter)) =>
      \A a \in 1..Len(output) :
        /\ output[a].category.t = "str"
        /\ Lower(output[a].category.s) = Lower(call.category_filter.s)

\* a filter that differs in case from the category it selects, one
\* candidate of another category dropped, one record returned
C4_Witness ==
    /\ Returned
    /\ Truthy(call.category_filter)
    /\ Len(output) > 0
    /\ output[1].category.s # call.category_filter.s
    /\ \E pos \in Positions : HasMetadata(pos) /\ ~PassesFilter(pos)

(***************************************************************************)
(* C5  A call made with an active tone filter returns records, and every  *)
(* returned record has the requested dominant tone.                        *)
(***************************************************************************)
C5_ToneFilterApplied ==
    (pc \in {"done", "raised"} /\ call.tone_passed /\ Truthy(call.tone_filter)) =>
      /\ Returned
      /\ \A a \in 1..Len(output) :
           StoredRow(output[a].isbn).dominant_tone = call.tone_filter

(***************************************************************************)
(* C6  A candidate whose normalized identifier is not a key of the        *)
(* Metadata Store is never returned, consuming it raises no error, and     *)
(* the candidates that are appended after it still reach the result.       *)
(***************************************************************************)
C6_JoinDrop ==
    /\ (pc = "raised" \/ error # "none") => \A pos \in 1..i : ~NoMetadata(pos)
    /\ Returned =>
         /\ i = Len(results)
         /\ \A a \in 1..Len(output) : ~NoMetadata(output[a].pos)
         /\ \A pos \in Positions :
              (PassesFilter(pos) /\ Convertible(pos))
                => pos \in PosIn(recommendations)
         /\ Len(recommendations) <= config.top_k
              => PosIn(output) = PosIn(recommendations)

\* the first candidate has no metadata and a later one is returned
C6_Witness ==
    /\ Returned
    /\ Len(results) > 1
    /\ NoMetadata(1)
    /\ Len(output) > 0

(***************************************************************************)
(* C7  As claimed: the number of records returned is                      *)
(* min(top_k, number of candidates that have metadata and pass the         *)
(* category filter).                                                       *)
(***************************************************************************)
C7_CountOfJoinedAndPassing ==
    Returned =>
      Len(output) =
        Min(config.top_k, Cardinality({pos \in Positions : PassesFilter(pos)}))

(***************************************************************************)
(* C7 amended  The number of records returned is min(top_k, number of     *)
(* candidates that have metadata, pass the category filter and whose       *)
(* rating and ratings count convert without error).                        *)
(***************************************************************************)
C7_CountOfSurvivors ==
    Returned =>
      Len(output) =
        Min(config.top_k,
            Cardinality({pos \in Positions : PassesFilter(pos) /\ Convertible(pos)}))

\* the scenario of the specification: top_k = 2, five candidates, two
\* dropped by the category filter, one without metadata, two returned
C7_Witness ==
    /\ Returned
    /\ config.top_k = 2
    /\ Len(results) = 5
    /\ Cardinality({pos \in Positions : NoMetadata(pos)}) = 1
    /\ Cardinality({pos \in Positions : HasMetadata(pos) /\ ~PassesFilter(pos)}) = 2
    /\ Len(output) = 2

(***************************************************************************)
(* C8  Every returned record's score is (1 - distance) +                  *)
(* (average_rating / 5) * popularity_weight for its candidate's distance   *)
(* and the rating stored under its identifier; distances 0.1 and 0.4 with  *)
(* ratings 4.5 and 3.0 at weight 0.5 give 1.35 and 0.9 in that order.      *)
(***************************************************************************)
TestRecommendFlow ==
    /\ books_metadata = TableToned
    /\ config = [top_k |-> 2, popularity_weight |-> 5]
    /\ call.category_filter = NoneVal
    /\ results = <<[isbn |-> <<"1">>, score |-> 1],
                   [isbn |-> <<"0", "-", "2">>, score |-> 4]>>

C8_ScoreFormula ==
    Returned =>
      /\ \A a \in 1..Len(output) :
           LET distance == results[output[a].pos].score
               stored == StoredRow(output[a].isbn).average_rating
           IN  /\ stored.t = "num" =>
                    output[a].score =
                      Float((500 - 50 * distance)
                            + stored.n * config.popularity_weight)
               /\ stored.t = "nan" => output[a].score.nan
      /\ TestRecommendFlow =>
           /\ Len(output) = 2
           /\ output[1].isbn = <<1>> /\ output[1].score = Float(675)
           /\ output[2].isbn = <<2>> /\ output[2].score = Float(450)

C8_Witness == Returned /\ TestRecommendFlow /\ Len(output) = 2

(***************************************************************************)
(* C11  A candidate whose identifier string has no digit gets the          *)
(* identifier 0 and is never returned, whatever file the engine was built  *)
(* from.                                                                   *)
(***************************************************************************)
C11_SentinelNeverReturned ==
    Returned =>
      \A a \in 1..Len(output) :
        FilterDigits(results[output[a].pos].isbn) # <<>>

\* the first row of the table that carries the identifier, stated without
\* the lookup of the engine
FirstRow(isbn) ==
    LET ks == {k \in 1..Len(books_metadata.rows) :
                 books_metadata.rows[k].isbn13 = isbn}
    IN  books_metadata.rows[CHOOSE k \in ks : \A j \in ks : k <= j]

Duplicated(isbn) ==
    Cardinality({k \in 1..Len(books_metadata.rows) :
                   books_metadata.rows[k].isbn13 = isbn}) > 1

(***************************************************************************)
(* C12  A candidate whose identifier has several rows in the table is      *)
(* enriched from the first of them in table order; the call does not fail  *)
(* and the candidate is not skipped.                                       *)
(***************************************************************************)
C12_FirstRowWins ==
    /\ pc = "raised" => error \in {"TypeError", "SearchError"}
    /\ Returned =>
         /\ \A a \in 1..Len(output) :
              LET row == FirstRow(output[a].isbn)
              IN  Duplicated(output[a].isbn) =>
                    /\ output[a].category = row.simple_category
                    /\ output[a].rating = Float(row.average_rating.n)
                    /\ output[a].ratings_count = row.ratings_count.n
         /\ \A pos \in Positions :
              (/\ NormId(pos).ok
               /\ Duplicated(NormId(pos).val)
               /\ \/ ~Truthy(call.category_filter)
                  \/ Lower(call.category_filter.s) =
                       Lower(FirstRow(NormId(pos).val).simple_category.s))
                => pos \in PosIn(recommendations)

\* a candidate with two rows is returned with the category of the first
C12_Witness ==
    /\ Returned
    /\ \E a \in 1..Len(output) :
         /\ Duplicated(output[a].isbn)
         /\ output[a].category = StrVal(Fiction)
         /\ output[a].rating = Float(45)

\* the row has no value in the column: no such column, or an empty cell
Missing(row, col) == col \notin books_metadata.cols \/ row[col].t = "nan"

(***************************************************************************)
(* C13  A candidate that passes the filter and whose row has no            *)
(* average_rating or no ratings_count (column absent or cell empty) is     *)
(* appended, with 0 for the missing value.                                 *)
(***************************************************************************)
C13_MissingTakenAsZero ==
    Returned =>
      \A pos \in Positions :
        PassesFilter(pos) =>
          LET row == StoredRow(NormId(pos).val)
          IN  (Missing(row, "average_rating") \/ Missing(row, "ratings_count")) =>
                \E k \in 1..Len(recommendations) :
                  /\ recommendations[k].pos = pos
                  /\ Missing(row, "average_rating")
                       => recommendations[k].rating = Float(0)
                  /\ Missing(row, "ratings_count")
                       => recommendations[k].ratings_count = 0

\* the fields of the returned dictionaries, without the batch position
Visible(list) ==
    [k \in 1..Len(list) |->
       [isbn |-> list[k].isbn, category |-> list[k].category,
        rating |-> list[k].rating, ratings_count |-> list[k].ratings_count,
        score |-> list[k].score, match_reason |-> list[k].match_reason]]

\* the batch without the candidate at position p
Without(batch, p) ==
    [k \in 1..(Len(batch) - 1) |-> IF k < p THEN batch[k] ELSE batch[k + 1]]

\* processing the candidate raises an exception inside the try
RaisesError(pos) ==
    Process(books_metadata, config, call.category_filter, results[pos], pos).kind
      = "error"

(***************************************************************************)
(* C14  An exception raised while one candidate is processed never ends    *)
(* the call, and the list returned is the list the call returns for the    *)
(* batch without that candidate, wherever the candidate sits.              *)
(***************************************************************************)
C14_ErrorSkipsOneCandidate ==
    /\ (\E pos \in 1..i : RaisesError(pos)) => pc # "raised"
    /\ Returned =>
         \A pos \in Positions :
           RaisesError(pos) =>
             Visible(output) =
               Visible(RecommendOutput(books_metadata, config,
                                       call.category_filter,
                                       Without(results, pos)))

\* a candidate with a non-numeric rating sits between two candidates that
\* are returned
C14_Witness ==
    /\ Returned
    /\ Len(results) = 3
    /\ RaisesError(2)
    /\ PosIn(output) = {1, 3}

(***************************************************************************)
(* C15  When the similarity search fails the call ends with the exception  *)
(* and returns no list; a call that returns a list, empty or not, had no   *)
(* failure of the search.                                                  *)
(***************************************************************************)
C15_SearchFailurePropagates ==
    /\ error = "SearchError" => (pc = "raised" /\ ~Returned)
    /\ Returned => error = "none"

\* the one search request of a call has failed and the call has raised
C15_Witness == pc = "raised" /\ error = "SearchError" /\ searches = 1

\* the call has entered the body of recommend
InBody == pc \in {"loop", "ranked", "done"} \/ error = "SearchError"

(***************************************************************************)
(* C20  A call issues exactly one similarity-search request; the number    *)
(* of candidates it asks for is greater than top_k, and it is 5 * top_k    *)
(* with a category filter, which is greater than the 3 * top_k asked       *)
(* without one.                                                            *)
(***************************************************************************)
C20_OneSearchWithFanOut ==
    InBody =>
      /\ searches = 1
      /\ call.fetch_k > config.top_k
      /\ Truthy(call.category_filter) =>
           /\ call.fetch_k = 5 * config.top_k
           /\ call.fetch_k > 3 * config.top_k
      /\ ~Truthy(call.category_filter) => call.fetch_k = 3 * config.top_k

\* a call with a filter has returned after one request for 5 * top_k
C20_Witness ==
    /\ Returned
    /\ Truthy(call.category_filter)
    /\ searches = 1
    /\ call.fetch_k = 5 * config.top_k
    /\ Len(results) > 0

(***************************************************************************)
(* C16  The metadata file is read once, at construction: from then on the  *)
(* number of reads is 1 whatever calls are made.                           *)
(***************************************************************************)
C16_ReadOnce ==
    /\ pc = "new" => reads = 0
    /\ pc # "new" => reads = 1

\* a second call has returned on an engine that has read its file once
C16_Witness == Returned /\ memo.set /\ Len(output) > 0 /\ reads = 1

(***************************************************************************)
(* C17  No step of a call changes the Metadata Store or the configuration  *)
(* of a constructed engine, and between calls nothing of a call (batch,    *)
(* list, result) is left on the engine.                                    *)
(***************************************************************************)
C17_EngineUnchanged ==
    /\ [][pc # "new" => (books_metadata' = books_metadata /\ config' = config)]_vars
    /\ [](Idle => (results = <<>> /\ recommendations = <<>> /\ output = <<>>))

\* a later call that skipped a candidate on an error has returned
C17_Witness ==
    /\ Returned
    /\ memo.set
    /\ \E pos \in Positions : RaisesError(pos)
    /\ books_metadata = TableBadRating

(***************************************************************************)
(* C18  A call with the category filter and the batch of an earlier call   *)
(* returns the list the earlier call returned, records of equal score in   *)
(* the same order, whatever calls were made in between.                    *)
(***************************************************************************)
C18_SameInputsSameOutput ==
    (/\ Returned
     /\ memo.set
     /\ memo.category_filter = call.category_filter
     /\ memo.results = results)
      => output = memo.output

\* the batch of an earlier call, with two candidates of equal score, has
\* been processed again
C18_Witness ==
    /\ Returned
    /\ memo.set
    /\ memo.category_filter = call.category_filter
    /\ memo.results = results
    /\ Len(output) = 2
    /\ output[1].score = output[2].score

(***************************************************************************)
(* C19  With two calls running at once on one engine, in every             *)
(* interleaving of their steps each call returns the list it returns when  *)
(* it runs alone.                                                          *)
(***************************************************************************)
C19_ConcurrentCallsIndependent ==
    /\ Returned =>
         output = RecommendOutput(books_metadata, config,
                                  call.category_filter, results)
    /\ other.pc = "done" =>
         other.output = RecommendOutput(books_metadata, config,
                                        other.category_filter, other.results)

\* the second call began while the first was inside its loop, and both
\* have returned records for different batches
C19_Witness ==
    /\ Returned
    /\ other.pc = "done"
    /\ other.during
    /\ other.results # results
    /\ Len(output) > 0
    /\ Len(other.output) > 0

(***************************************************************************)
(* C21  Every returned record has the fields identifier, title, authors,   *)
(* description, category, rating, ratings_count, thumbnail, score and      *)
(* match_reason, and match_reason is one fixed label.                      *)
(***************************************************************************)
C21_AllFieldsPresent ==
    Returned =>
      \A a \in 1..Len(output) :
        /\ {"isbn", "title", "authors", "description", "category", "rating",
            "ratings_count", "thumbnail", "score", "match_reason"}
             \subseteq output[a].keys
        /\ output[a].match_reason = "Hybrid Match"

\* the category the book should be known under: the enriched category
\* when the book has one, the raw category otherwise
ExpectedCategory(row) ==
    IF "simple_category" \in books_metadata.cols /\ row.simple_category.t = "str"
    THEN row.simple_category
    ELSE row.categories

(***************************************************************************)
(* C22  The category used for the filter and put in the record is the      *)
(* enriched category of the book when it has one and the raw category      *)
(* when it has none, be the column missing or the cell empty.              *)
(***************************************************************************)
C22_CategoryFallback ==
    Returned =>
      /\ \A a \in 1..Len(recommendations) :
           recommendations[a].category =
             ExpectedCategory(StoredRow(recommendations[a].isbn))
      /\ \A pos \in Positions :
           (/\ HasMetadata(pos)
            /\ Convertible(pos)
            /\ \/ ~Truthy(call.category_filter)
               \/ Lower(call.category_filter.s) =
                    Lower(ExpectedCategory(StoredRow(NormId(pos).val)).s))
             => pos \in PosIn(recommendations)

\* get_inference_config has returned
Configured == app.pc \in {"configured", "serving", "pending"}

\* a less processed file is never chosen while a more processed one exists
Precedence ==
    /\ app.files["toned"] => app.data_path = "toned"
    /\ (~app.files["toned"] /\ app.files["enriched"])
         => app.data_path = "enriched"
    /\ (~app.files["toned"] /\ ~app.files["enriched"])
         => app.data_path = "cleaned"

(***************************************************************************)
(* C26  As claimed: the metadata file is chosen by the precedence toned,   *)
(* enriched, cleaned, and the chosen path always names an existing file.   *)
(***************************************************************************)
C26_PrecedenceAndExists ==
    Configured => (Precedence /\ app.files[app.data_path])

(***************************************************************************)
(* C26 amended  The metadata file is chosen by the precedence toned,       *)
(* enriched, cleaned; the chosen path names an existing file whenever one  *)
(* of the three files exists, and is the cleaned path when none does.      *)
(***************************************************************************)
C26_PrecedenceExistsIfAny ==
    Configured =>
      /\ Precedence
      /\ (\E f \in Files : app.files[f]) => app.files[app.data_path]
      /\ (\A f \in Files : ~app.files[f]) => app.data_path = "cleaned"

\* only the enriched and the cleaned file exist and the enriched is chosen
C26_Witness ==
    /\ Configured
    /\ ~app.files["toned"]
    /\ app.files["enriched"]
    /\ app.files["cleaned"]
    /\ app.data_path = "enriched"

\* a request has been received
Requested == app.request # NoRequest

\* search_books has returned its response to the current request
Responded == Requested /\ app.pc = "serving"

\* the query is empty or whitespace only and no category and no tone is
\* selected
BlankRequest ==
    /\ \A k \in 1..Len(app.request.query) : app.request.query[k] \in Whitespace
    /\ app.request.category = All
    /\ app.request.tone = "All"

(***************************************************************************)
(* C23  For a request whose query is empty or whitespace only, with no     *)
(* category and no tone selected, search_books does not call recommend     *)
(* and raises nothing: it returns its response at once.                    *)
(***************************************************************************)
C23_BlankRequestRefused ==
    (Requested /\ BlankRequest) =>
      /\ app.calls = 0
      /\ pc = "idle"
      /\ Responded
      /\ ~app.raised
      /\ app.recommender => app.response = EmptyResponse

\* a whitespace-only query without filters was refused by a ready engine
C23_Witness ==
    /\ Responded
    /\ app.recommender
    /\ app.request.query = <<" ">>
    /\ BlankRequest
    /\ app.response = EmptyResponse

(***************************************************************************)
(* C24  When the construction of the engine has failed, every request is   *)
(* answered with the initialization error, recommend is never called, and  *)
(* that answer differs from the answer to a failed query.                  *)
(***************************************************************************)
C24_NotReadyReported ==
    (app.pc \in {"serving", "pending"} /\ ~app.recommender) =>
      /\ pc = "idle"
      /\ app.calls = 0
      /\ Requested =>
           /\ app.response = NotReadyResponse
           /\ app.response # EmptyResponse

\* the provider could not be initialized and a request with a query and a
\* category was answered
C24_Witness ==
    /\ ~app.embedding_ok
    /\ Responded
    /\ ~BlankRequest
    /\ app.request.category = Fiction
    /\ app.response = NotReadyResponse

\* the request passes the test of line 64
Admitted ==
    \/ \E k \in 1..Len(app.request.query) : app.request.query[k] \notin Whitespace
    \/ Truthy(CatFilter(app.request.category))
    \/ Truthy(ToneFilter(app.request.tone))

(***************************************************************************)
(* C25  When a request passes the precondition and no candidate of the     *)
(* batch the index gives for it survives join and filter, search_books     *)
(* answers with the no-matches message.                                    *)
(***************************************************************************)
C25_NoMatchesMessage ==
    (/\ Responded
     /\ app.recommender
     /\ Admitted
     /\ RecommendOutput(books_metadata, config, CatFilter(app.request.category),
                        app.request.index_batch) = <<>>)
      => app.response = NoMatchesResponse

(***************************************************************************)
(* C28  search_books never raises: an exception of the recommend call is   *)
(* answered with the empty gallery and the empty status, the answer given  *)
(* to a refused request.                                                   *)
(***************************************************************************)
C28_ExceptionBecomesEmpty ==
    /\ ~app.raised
    /\ (Responded /\ app.calls = 1) =>
         /\ app.caught # "none"
         /\ app.response = EmptyResponse
    /\ (Responded /\ app.recommender /\ app.calls = 0) =>
         app.response = EmptyResponse

\* the recommend call raised TypeError and the request got the empty answer
C28_Witness ==
    /\ Responded
    /\ app.calls = 1
    /\ app.caught = "TypeError"
    /\ app.response = EmptyResponse

\* the messages of the model that name a rate limit
RateLimitMessages == {Msg429, MsgExhausted, MsgPort}

\* the offsets of the first n batches, in dataset order
FirstBatches(n) == [k \in 1..n |-> (k - 1) * trainer.batch_size]

(***************************************************************************)
(* C27  Each batch gets at most 5 add_documents attempts; a retry follows  *)
(* only a rate-limit error and only before the 5th attempt; any other      *)
(* error, or a rate-limit error on the 5th attempt, is raised and no later *)
(* batch is added; the batches are added in dataset order, each once.      *)
(***************************************************************************)
C27_BoundedRetries ==
    trainer.pc # "off" =>
      /\ trainer.attempts <= 5
      /\ trainer.added = FirstBatches(Len(trainer.added))
      /\ (trainer.pc = "indexing" /\ trainer.attempts > 0) =>
           /\ trainer.last \in RateLimitMessages
           /\ trainer.attempts < 5
           /\ trainer.slept = 15 * trainer.attempts
      /\ trainer.pc = "raised" =>
           /\ trainer.error \notin RateLimitMessages \/ trainer.attempts = 5
           /\ trainer.start = Len(trainer.added) * trainer.batch_size
           /\ trainer.start < trainer.documents
      /\ trainer.pc = "done" =>
           Len(trainer.added) * trainer.batch_size >= trainer.documents

\* the second batch was given up after five rate-limit errors, the first
\* had been added
C27_Witness ==
    /\ trainer.pc = "raised"
    /\ trainer.attempts = 5
    /\ trainer.error = MsgExhausted
    /\ Len(trainer.added) = 1

(***************************************************************************)
(* C29  With category_filter "" the call asks for 3 * top_k candidates,    *)
(* rejects none by category and returns the list of the same call with     *)
(* category_filter None.                                                   *)
(***************************************************************************)
C29_EmptyFilterIsNoFilter ==
    call.category_filter = StrVal(<<>>) =>
      /\ InBody => call.fetch_k = 3 * config.top_k
      /\ Returned =>
           /\ output = RecommendOutput(books_metadata, config, NoneVal, results)
           /\ \A pos \in Positions :
                (HasMetadata(pos) /\ Convertible(pos))
                  => pos \in PosIn(recommendations)

\* a call with "" returned books of two different categories
C29_Witness ==
    /\ Returned
    /\ call.category_filter = StrVal(<<>>)
    /\ Len(output) = 2
    /\ output[1].category # output[2].category

(***************************************************************************)
(* The scoring step alone (lines 68-69 and 109-112): one distance, two     *)
(* ratings, the popularity_weight of the configuration                     *)
(***************************************************************************)
\* InferenceConfig (config_entity.py:141-162) declares popularity_weight a
\* float and validates nothing: any value of params.yaml is accepted
AcceptedWeights == {-5, -1, 0, 1, 5, 10}

\* average_rating values, in tenths
Ratings == {0, 30, 45, 50}

\* distances, in tenths; 12 is a distance greater than 1
ScoreDistances == {0, 1, 4, 12}

InitScore ==
    /\ pc = "score"
    /\ config \in [top_k : {1}, popularity_weight : AcceptedWeights]
    /\ books_metadata = TableToned
    /\ call = NoCall
    /\ results = <<>>
    /\ i = 0
    /\ recommendations = <<>>
    /\ output = <<>>
    /\ error = "none"
    /\ fn_in \in [score : ScoreDistances, low : Ratings, high : Ratings]
    /\ fn_out = <<>>
    /\ reads = 1
    /\ searches = 0
    /\ memo = NoMemo
    /\ other = NoFrame
    /\ app = NoApp
    /\ trainer = NoTrainer

ScorePair ==
    /\ pc = "score"
    /\ fn_out' = [low |-> HybridScore(fn_in.score, Float(fn_in.low),
                                      config.popularity_weight),
                  high |-> HybridScore(fn_in.score, Float(fn_in.high),
                                       config.popularity_weight)]
    /\ pc' = "scored"
    /\ UNCHANGED <<config, books_metadata, reads, memo, other, app, trainer, call, results, i,
                   recommendations, output, error, searches, fn_in>>

SpecScore == InitScore /\ [][ScorePair]_vars

(***************************************************************************)
(* C9  As claimed: at a fixed distance the candidate with the higher      *)
(* average_rating never gets the lower hybrid score, for every             *)
(* popularity_weight the configuration accepts.                            *)
(***************************************************************************)
C9_RatingMonotoneAnyWeight ==
    (pc = "scored" /\ fn_in.low <= fn_in.high)
      => ~FloatLt(fn_out.high, fn_out.low)

(***************************************************************************)
(* C9 amended  At a fixed distance the candidate with the higher          *)
(* average_rating never gets the lower hybrid score, for every             *)
(* popularity_weight that is not negative.                                 *)
(***************************************************************************)
C9_RatingMonotone ==
    (pc = "scored" /\ config.popularity_weight >= 0 /\ fn_in.low <= fn_in.high)
      => ~FloatLt(fn_out.high, fn_out.low)

\* a positive weight, a higher rating, a strictly higher score
C9_Witness ==
    /\ pc = "scored"
    /\ config.popularity_weight > 0
    /\ fn_in.low < fn_in.high
    /\ FloatLt(fn_out.low, fn_out.high)

(***************************************************************************)
(* Identifier normalization alone (lines 83-85)                            *)
(***************************************************************************)
NormAlphabet == {"0", "7", "-", "X", "^2"}

\* "978-0-13-468599-1"
Isbn13Text == <<"9", "7", "8", "-", "0", "-", "1", "3", "-",
                "4", "6", "8", "5", "9", "9", "-", "1">>

InitNorm ==
    /\ pc = "normalize"
    /\ config = [top_k |-> 1, popularity_weight |-> 5]
    /\ books_metadata = TableToned
    /\ call = NoCall
    /\ results = <<>>
    /\ i = 0
    /\ recommendations = <<>>
    /\ output = <<>>
    /\ error = "none"
    /\ fn_in \in SeqsUpTo(NormAlphabet, MaxLen) \cup {Isbn13Text}
    /\ fn_out = <<>>
    /\ reads = 1
    /\ searches = 0
    /\ memo = NoMemo
    /\ other = NoFrame
    /\ app = NoApp
    /\ trainer = NoTrainer

Normalize ==
    /\ pc = "normalize"
    /\ fn_out' = NormalizeIsbn(fn_in)
    /\ pc' = "normalized"
    /\ UNCHANGED <<config, books_metadata, reads, memo, other, app, trainer, call, results, i,
                   recommendations, output, error, searches, fn_in>>

SpecNorm == InitNorm /\ [][Normalize]_vars

(***************************************************************************)
(* The identifier from the table to the index and back: the trainer        *)
(* (model_trainer.py:65-105) stores str(row.get("isbn13", "")) after       *)
(* df.fillna(""), recommend (lines 83-85) normalizes that string.          *)
(* A cell of the isbn13 column is [missing, digits]: an empty cell, or an  *)
(* integer as the sequence of its decimal digits.                          *)
(***************************************************************************)
DigitChar(d) ==
    CASE d = 0 -> "0" [] d = 1 -> "1" [] d = 2 -> "2" [] d = 3 -> "3"
      [] d = 4 -> "4" [] d = 5 -> "5" [] d = 6 -> "6" [] d = 7 -> "7"
      [] d = 8 -> "8" [] d = 9 -> "9"

MissingCell == [missing |-> TRUE, digits |-> <<>>]

IntCell(digits) == [missing |-> FALSE, digits |-> digits]

Isbn13Cells == {MissingCell, IntCell(<<1>>), IntCell(<<2, 0>>),
                IntCell(<<9, 7, 8>>)}

\* pd.read_csv: a numeric column with an empty cell is float64, the empty
\* cell NaN; without one it is int64
IsFloatColumn(column) == \E k \in 1..Len(column) : column[k].missing

\* model_trainer.py:67 and 95-97: fillna("") turns NaN into "", then
\* str(): "" for the empty cell, "978.0" for the float 978.0, "978" for
\* the int 978
StoredIsbn(column, k) ==
    LET text == [j \in 1..Len(column[k].digits) |-> DigitChar(column[k].digits[j])]
    IN  IF column[k].missing THEN <<>>
        ELSE IF IsFloatColumn(column) THEN text \o <<".", "0">>
        ELSE text

InitRoundTrip ==
    /\ pc = "indexing"
    /\ config = [top_k |-> 1, popularity_weight |-> 5]
    /\ books_metadata = NoTable
    /\ call = NoCall
    /\ results = <<>>
    /\ i = 0
    /\ recommendations = <<>>
    /\ output = <<>>
    /\ error = "none"
    /\ \E column \in SeqsUpTo(Isbn13Cells, MaxRows) :
       \E k \in 1..Len(column) :
         fn_in = [column |-> column, row |-> k]
    /\ fn_out = <<>>
    /\ reads = 0
    /\ searches = 0
    /\ memo = NoMemo
    /\ other = NoFrame
    /\ app = NoApp
    /\ trainer = NoTrainer

\* the row is indexed by the trainer and comes back as a candidate
IndexAndNormalize ==
    /\ pc = "indexing"
    /\ LET isbn_str == StoredIsbn(fn_in.column, fn_in.row)
       IN  fn_out' = [isbn |-> isbn_str, norm |-> NormalizeIsbn(isbn_str)]
    /\ pc' = "joined"
    /\ UNCHANGED <<config, books_metadata, reads, memo, other, app, trainer,
                   call, results, i, recommendations, output, error, searches,
                   fn_in>>

SpecRoundTrip == InitRoundTrip /\ [][IndexAndNormalize]_vars

(***************************************************************************)
(* C30  The string the trainer stores for a row normalizes to the integer  *)
(* that keys the row in the Metadata Store; a row with no isbn13 is stored *)
(* as "" and normalizes to 0.                                              *)
(***************************************************************************)
C30_RoundTrip ==
    pc = "joined" =>
      LET cell == fn_in.column[fn_in.row]
      IN  /\ fn_out.norm.ok
          /\ ~cell.missing => fn_out.norm.val = cell.digits
          /\ cell.missing => (fn_out.isbn = <<>> /\ fn_out.norm.val = <<0>>)

\* the characters 0-9 of a string, in order, as digit values
RECURSIVE DecimalDigitsOf(_)
DecimalDigitsOf(s) ==
    IF s = <<>> THEN <<>>
    ELSE IF Head(s) \in DecimalChars
         THEN <<DigitVal(Head(s))>> \o DecimalDigitsOf(Tail(s))
         ELSE DecimalDigitsOf(Tail(s))

(***************************************************************************)
(* C10  Normalization never raises; its result is the integer written by  *)
(* the digit characters of the string in order, 0 when there is none, and  *)
(* "978-0-13-468599-1" gives 9780134685991.                                *)
(***************************************************************************)
C10_DigitsParsedNeverRaises ==
    pc = "normalized" =>
      /\ fn_out.ok
      /\ fn_out.val = StripZeros(DecimalDigitsOf(fn_in))
      /\ fn_in = Isbn13Text => fn_out.val = <<9, 7, 8, 0, 1, 3, 4, 6, 8, 5, 9, 9, 1>>

====
